---- MODULE Spec2Model ----
(***************************************************************************)
(* A model of the scoreboard statistics bot (src/main.py): the image       *)
(* folder fed by reactions, the update command (OCR extraction, row        *)
(* parsing, the raw store flush) and update_player_averages (recency       *)
(* window, first-fit nickname clustering, activity and minimum-games       *)
(* filters, averages).                                                     *)
(*                                                                         *)
(* Text is a sequence of one-character strings.  Fractions are pairs       *)
(* <<numerator, denominator>>; Python floats are modelled as exact         *)
(* rationals.                                                              *)
(***************************************************************************)
EXTENDS Integers, Sequences, FiniteSets, TLC

VARIABLES
    MIN_GAMES,   \* config['MIN_GAMES'], fixed at start-up
    folder,      \* the names of the files in IMAGES_FOLDER
    rawStore,    \* contents of RAW_STATS_FILE: ordered <<[name, recs]>>
    averages,    \* contents of PLAYER_AVERAGES_FILE: ordered <<entry>>
    run,         \* per update invocation: position and locals
    posted,      \* number of attachments posted so far (environment)
    faults,      \* number of environment faults so far (environment)
    log,         \* console: the images whose extraction came back as an error
    data,        \* parser harness: the text handed to parse_and_store_data
    parsed       \* parser harness: its outcome

vars == <<MIN_GAMES, folder, rawStore, averages, run, posted, faults, log, data, parsed>>

(***************************************************************************)
(* Characters and text                                                     *)
(***************************************************************************)
\* \s, \d and \w over the characters the texts of the model are made of
Spaces == {" ", "\t", "\n"}
Digits == {"0", "1", "2", "3", "4", "5", "6", "7", "8", "9"}
Letters == {"a", "b", "c", "d", "e", "f", "g", "h", "i", "j", "k", "l",
            "m", "n", "o", "p", "q", "r", "s", "t", "u", "v", "w", "x",
            "y", "z", "_"}

IsSpace(c) == c \in Spaces
IsDigit(c) == c \in Digits
IsWord(c) == c \in Letters \cup Digits
IsNickChar(c) == IsWord(c) \/ IsSpace(c) \/ c = "." \/ c = "-"

DigitVal(c) ==
    CASE c = "0" -> 0 [] c = "1" -> 1 [] c = "2" -> 2 [] c = "3" -> 3
      [] c = "4" -> 4 [] c = "5" -> 5 [] c = "6" -> 6 [] c = "7" -> 7
      [] c = "8" -> 8 [] c = "9" -> 9

RECURSIVE ParseInt(_)
ParseInt(ds) ==
    IF ds = <<>> THEN 0
    ELSE 10 * ParseInt(SubSeq(ds, 1, Len(ds) - 1)) + DigitVal(ds[Len(ds)])

Slice(s, from, to) == SubSeq(s, from, to - 1)

\* First index j >= i such that s[j] is not in the class cs (Len(s)+1 if none).
RunEnd(s, i, cs) ==
    CHOOSE j \in i..(Len(s) + 1) :
        /\ \A k \in i..(j - 1) : s[k] \in cs
        /\ (j = Len(s) + 1 \/ s[j] \notin cs)

Strip(s) ==
    LET a == RunEnd(s, 1, Spaces)
        b == IF a > Len(s) THEN a - 1
             ELSE CHOOSE j \in a..Len(s) :
                      /\ ~IsSpace(s[j])
                      /\ \A k \in (j + 1)..Len(s) : IsSpace(s[k])
    IN  SubSeq(s, a, b)

RECURSIVE SplitOn(_, _)
SplitOn(s, sep) ==
    LET e == CHOOSE j \in 1..(Len(s) + 1) :
                 /\ \A k \in 1..(j - 1) : s[k] # sep
                 /\ (j = Len(s) + 1 \/ s[j] = sep)
    IN  IF e > Len(s) THEN <<s>>
        ELSE <<SubSeq(s, 1, e - 1)>> \o SplitOn(SubSeq(s, e + 1, Len(s)), sep)

StartsWith(s, prefix) ==
    Len(s) >= Len(prefix) /\ SubSeq(s, 1, Len(prefix)) = prefix

RECURSIVE Concat(_)
Concat(ss) == IF ss = <<>> THEN <<>> ELSE Head(ss) \o Concat(Tail(ss))

RECURSIVE SeqSum(_)
SeqSum(ns) == IF ns = <<>> THEN 0 ELSE Head(ns) + SeqSum(Tail(ns))

Range(s) == {s[i] : i \in 1..Len(s)}

\* A value computed once and kept in a table, or computed now
Known(table, key, value) == IF key \in DOMAIN table THEN table[key] ELSE value

(***************************************************************************)
(* The environment: the attachments admins react to, in the order the      *)
(* reactions arrive, and what the OCR service reads in each                *)
(***************************************************************************)
MaxMinGames == 2    \* MIN_GAMES is drawn from 1..MaxMinGames
MaxPending == 2     \* saved images not yet in the store, at most
MaxFaults == 1      \* OCR errors, process stops and store losses, in total

Sp == <<" ">>
NL == <<"\n">>
Png == <<".", "p", "n", "g">>
Jpg == <<".", "j", "p", "g">>
Jpeg == <<".", "j", "p", "e", "g">>
Gif == <<".", "g", "i", "f">>

\* f"{message.id}-{attachment.filename}"
FileName(message_id, filename) == message_id \o <<"-">> \o filename

Row(place, nickname, kills, deaths, assists, treasury, score) ==
    Concat(<<place, Sp, nickname, Sp, kills, Sp, deaths, Sp, assists, Sp,
             treasury, Sp, score>>)

Aaaa == <<"a", "a", "a", "a">>
Aaab == <<"a", "a", "a", "b">>
Abbb == <<"a", "b", "b", "b">>
Bbbb == <<"b", "b", "b", "b">>
Cccc == <<"c", "c", "c", "c">>
Dddd == <<"d", "d", "d", "d">>
Header == <<"#", " ", "n", "i", "c", "k", " ", "k", " ", "d">>

Attachments == <<
    [id |-> <<"3">>, filename |-> <<"a">> \o Png, image |-> TRUE,
     text |-> Row(<<"1">>, Aaaa, <<"1", "0">>, <<"2">>, <<"0">>, <<"0">>, <<"5">>) \o NL
              \o Row(<<"2">>, Aaab, <<"1", "4">>, <<"2">>, <<"1">>, <<"0">>, <<"2">>)],
    [id |-> <<"3">>, filename |-> <<"b">> \o Gif, image |-> TRUE,
     text |-> Row(<<"1">>, Cccc, <<"9">>, <<"9">>, <<"9">>, <<"9">>, <<"9">>)],
    [id |-> <<"4">>, filename |-> <<"a">> \o Png, image |-> TRUE,
     text |-> Header \o NL
              \o Row(<<"3">>, Cccc, <<"1">>, <<"0">>, <<"0">>, <<"0">>, <<"1">>)],
    [id |-> <<"2">>, filename |-> <<"a">> \o Png, image |-> TRUE,
     text |-> Row(<<"1">>, Bbbb, <<"4">>, <<"3">>, <<"0">>, <<"0">>, <<"6">>) \o NL
              \o Row(<<"2">>, Dddd, <<"1">>, <<"1">>, <<"1">>, <<"1">>, <<"1">>)],
    [id |-> <<"1">>, filename |-> <<"a">> \o Jpg, image |-> TRUE,
     text |-> Header \o NL \o <<"1", " ", "a", " ", "2">>],
    [id |-> <<"5">>, filename |-> <<"a">> \o Png, image |-> TRUE,
     text |-> Sp \o Row(<<"1">>, Aaab, <<"2">>, <<"2">>, <<"1">>, <<"0">>, <<"4">>) \o Sp],
    [id |-> <<"6">>, filename |-> <<"a">> \o Jpeg, image |-> TRUE,
     text |-> Row(<<"1">>, Abbb, <<"5">>, <<"0">>, <<"2">>, <<"0">>, <<"7">>)],
    [id |-> <<"7">>, filename |-> <<"a">> \o Png, image |-> TRUE,
     text |-> Row(<<"4">>, Cccc, <<"2">>, <<"0">>, <<"0">>, <<"0">>, <<"1">>)],
    [id |-> <<"8">>, filename |-> <<"a">> \o Png, image |-> TRUE,
     text |-> Row(<<"1">>, Aaaa, <<"6">>, <<"1">>, <<"1">>, <<"0">>, <<"8">>) \o NL
              \o Row(<<"2">>, Cccc, <<"1">>, <<"0">>, <<"1">>, <<"0">>, <<"2">>)],
    [id |-> <<"9">>, filename |-> <<"a">> \o Png, image |-> FALSE,
     text |-> <<>>],
    [id |-> <<"9">>, filename |-> <<"b">> \o Png, image |-> TRUE,
     text |-> Row(<<"2">>, Aaab, <<"0">>, <<"1">>, <<"0">>, <<"0">>, <<"2">>)],
    [id |-> <<"1", "0">>, filename |-> <<"a">> \o Png, image |-> TRUE,
     text |-> Row(<<"1">>, Aaaa, <<"3">>, <<"0">>, <<"0">>, <<"0">>, <<"4">>)],
    [id |-> <<"1", "1">>, filename |-> <<"a">> \o Png, image |-> TRUE,
     text |-> Row(<<"3">>, Abbb, <<"1">>, <<"4">>, <<"0">>, <<"0">>, <<"1">>)],
    [id |-> <<"1", "2">>, filename |-> <<"a">> \o Png, image |-> TRUE,
     text |-> Row(<<"1">>, Aaaa, <<"2">>, <<"1">>, <<"3">>, <<"0">>, <<"5">>)]
>>

PathOf(att) == FileName(att.id, att.filename)

Attachment(name) ==
    Attachments[CHOOSE i \in 1..Len(Attachments) : PathOf(Attachments[i]) = name]

(***************************************************************************)
(* parse_and_store_data: the row pattern                                   *)
(*   ^\s*(\d+)\s+([\w\s.-]+?)\s+(\d+)\s+(\d+)\s+(\d+)\s+(\d+)\s+(\d+)      *)
(* as re.match tries it: greedy runs give back one character at a time,    *)
(* the lazy nickname grows one character at a time, and nothing anchors    *)
(* the end of the line.                                                    *)
(***************************************************************************)
NoMatch == [ok |-> FALSE, groups |-> <<>>]

\* (\s+(\d+)) repeated k times from position e.  A shorter whitespace or
\* digit run always leaves a character the next item rejects, so only the
\* maximal runs can match.
RECURSIVE IntColumns(_, _, _)
IntColumns(s, e, k) ==
    IF k = 0 THEN [ok |-> TRUE, groups |-> <<>>]
    ELSE LET d == RunEnd(s, e, Spaces)
             f == RunEnd(s, d, Digits)
         IN  IF d = e \/ f = d THEN NoMatch
             ELSE LET rest == IntColumns(s, f, k - 1)
                  IN  IF rest.ok
                      THEN [ok |-> TRUE, groups |-> <<Slice(s, d, f)>> \o rest.groups]
                      ELSE NoMatch

RowMatch(s) ==
    LET p0 == RunEnd(s, 1, Spaces)
        p1 == RunEnd(s, p0, Digits)
        p2 == RunEnd(s, p1, Spaces)
        \* nickname spans [q, e): q after at least one blank, e before the columns
        Fits(q, e) == /\ \A k \in q..(e - 1) : IsNickChar(s[k])
                      /\ IntColumns(s, e, 5).ok
        Starts == {q \in (p1 + 1)..p2 : \E e \in (q + 1)..(Len(s) + 1) : Fits(q, e)}
    IN  IF p1 = p0 \/ p2 = p1 \/ Starts = {} THEN NoMatch
        ELSE LET q == CHOOSE x \in Starts : \A y \in Starts : y <= x
                 e == CHOOSE x \in (q + 1)..(Len(s) + 1) :
                          /\ Fits(q, x)
                          /\ \A y \in (q + 1)..(x - 1) : ~Fits(q, y)
             IN  [ok |-> TRUE,
                  groups |-> <<Slice(s, p0, p1), Slice(s, q, e)>>
                             \o IntColumns(s, e, 5).groups]

MatchRecord(g) ==
    [place |-> ParseInt(g[1]), nickname |-> Strip(g[2]),
     kills |-> ParseInt(g[3]), deaths |-> ParseInt(g[4]),
     assists |-> ParseInt(g[5]), treasury |-> ParseInt(g[6]),
     score |-> ParseInt(g[7])]

\* if match: stats_for_this_image.append({...})
Matched(match) == IF match.ok THEN <<MatchRecord(match.groups)>> ELSE <<>>

RECURSIVE ParseLines(_)
ParseLines(lines) ==
    IF lines = <<>> THEN <<>>
    ELSE Matched(RowMatch(Strip(Head(lines)))) \o ParseLines(Tail(lines))

\* data.strip().split('\n'), then the pattern on every line.  The texts the
\* OCR service returns are parsed once and looked up afterwards.
ParsedOnce ==
    [text \in {Strip(Attachments[i].text) : i \in 1..Len(Attachments)} |->
        ParseLines(SplitOn(Strip(text), "\n"))]

ParseText(text) == Known(ParsedOnce, text, ParseLines(SplitOn(Strip(text), "\n")))

(***************************************************************************)
(* The raw store: an insertion-ordered dict                                *)
(***************************************************************************)
Keys(store) == {store[i].name : i \in 1..Len(store)}

Lookup(store, name) ==
    (CHOOSE i \in 1..Len(store) : store[i].name = name)

\* dict[name] = recs: an existing key keeps its place, a new one goes last
DictSet(store, name, recs) ==
    IF name \in Keys(store)
    THEN [store EXCEPT ![Lookup(store, name)] = [name |-> name, recs |-> recs]]
    ELSE Append(store, [name |-> name, recs |-> recs])

\* if stats_for_this_image: raw_data_dict[image_name] = ...; return len(...)
StoreStats(image_name, stats_for_this_image, raw_data_dict) ==
    [dict |-> IF stats_for_this_image # <<>>
              THEN DictSet(raw_data_dict, image_name, stats_for_this_image)
              ELSE raw_data_dict,
     count |-> Len(stats_for_this_image)]

parse_and_store_data(image_name, text, raw_data_dict) ==
    StoreStats(image_name, ParseText(text), raw_data_dict)

(***************************************************************************)
(* Levenshtein.distance, by rows of the edit matrix                        *)
(***************************************************************************)
Min2(x, y) == IF x <= y THEN x ELSE y

\* The row for one more character c of the first string, given the previous
\* row; acc holds the cells already computed (acc[j + 1] is column j).
RECURSIVE LevRow(_, _, _, _)
LevRow(prev, c, b, acc) ==
    IF Len(acc) = Len(b) + 1 THEN acc
    ELSE LET j == Len(acc)
             cell == Min2(Min2(prev[j + 1] + 1, acc[j] + 1),
                          prev[j] + (IF c = b[j] THEN 0 ELSE 1))
         IN  LevRow(prev, c, b, Append(acc, cell))

RECURSIVE LevRows(_, _, _)
LevRows(a, b, prev) ==
    IF a = <<>> THEN prev
    ELSE LevRows(Tail(a), b, LevRow(prev, Head(a), b, <<prev[1] + 1>>))

Levenshtein(a, b) == LevRows(a, b, [j \in 1..(Len(b) + 1) |-> j - 1])[Len(b) + 1]

\* The distances between the nicknames on the scoreboards, computed once
Nicknames == {Aaaa, Aaab, Abbb, Bbbb, Cccc, Dddd}

MeasuredOnce == [pair \in Nicknames \X Nicknames |-> Levenshtein(pair[1], pair[2])]

Distance(a, b) == Known(MeasuredOnce, <<a, b>>, Levenshtein(a, b))

(***************************************************************************)
(* Python arithmetic: true division and round()                            *)
(***************************************************************************)
\* x / y on numbers held as fractions.  A zero divisor, on which Python
\* raises ZeroDivisionError, gives a fraction with denominator 0.
TrueDiv(x, y) == <<x[1] * y[2], x[2] * y[1]>>

ZeroDivisionError(x) == x[2] = 0

\* round(n / d): to the nearest integer, ties to the even one
RoundHalfEven(n, d) ==
    LET q == n \div d
        r == n % d
    IN  IF 2 * r < d THEN q
        ELSE IF 2 * r > d THEN q + 1
        ELSE IF q % 2 = 0 THEN q ELSE q + 1

\* round(x, 2), as a fraction over 100
Round2(x) ==
    IF ZeroDivisionError(x) THEN x
    ELSE <<RoundHalfEven(100 * x[1], x[2]), 100>>

(***************************************************************************)
(* update_player_averages                                                  *)
(***************************************************************************)
MAX_DISTANCE == 3
RECENT_MATCHES == 10

\* The alternative the numeric key is there to avoid: filename.split('-')[0]
\* compared as text, coded so that integer order is the order of the texts
MessageIdAsText(filename) ==
    SeqSum([k \in 1..3 |->
               (IF k <= Len(SplitOn(filename, "-")[1])
                THEN DigitVal(SplitOn(filename, "-")[1][k]) + 1 ELSE 0) * 11 ^ (3 - k)])

\* int(filename.split('-')[0])
MessageId(filename) == ParseInt(SplitOn(filename, "-")[1])

\* list.sort(key=..., reverse=True): descending, equal keys keep their order
RECURSIVE SortRecentFirst(_)
SortRecentFirst(files) ==
    IF files = <<>> THEN <<>>
    ELSE LET init == SortRecentFirst(SubSeq(files, 1, Len(files) - 1))
             x == files[Len(files)]
             p == Cardinality({i \in 1..Len(init) :
                                  MessageId(init[i]) >= MessageId(x)})
         IN  SubSeq(init, 1, p) \o <<x>> \o SubSeq(init, p + 1, Len(init))

RecentFiles(raw_data_dict) ==
    LET all_known_files == SortRecentFirst([i \in 1..Len(raw_data_dict) |->
                                               raw_data_dict[i].name])
    IN  Range(SubSeq(all_known_files, 1, Min2(RECENT_MATCHES, Len(all_known_files))))

ActiveNicknames(raw_data_dict) ==
    LET recent_files == RecentFiles(raw_data_dict)
    IN  UNION {{raw_data_dict[i].recs[k].nickname :
                   k \in 1..Len(raw_data_dict[i].recs)} :
                  i \in {x \in 1..Len(raw_data_dict) :
                            raw_data_dict[x].name \in recent_files}}

AllStats(raw_data_dict) ==
    Concat([i \in 1..Len(raw_data_dict) |-> raw_data_dict[i].recs])

StatTuple(player_stat) ==
    <<player_stat.place, player_stat.kills, player_stat.deaths,
      player_stat.assists, player_stat.treasury, player_stat.score>>

\* Best fit, which the code does not do: the closest group within MAX_DISTANCE
BestFitGroup(grouped_data, nickname) ==
    LET hits == {i \in 1..Len(grouped_data) :
                    Distance(nickname, grouped_data[i].name) <= MAX_DISTANCE}
    IN  IF hits = {} THEN 0
        ELSE CHOOSE i \in hits : \A j \in hits :
                 \/ Distance(nickname, grouped_data[i].name)
                        < Distance(nickname, grouped_data[j].name)
                 \/ /\ Distance(nickname, grouped_data[i].name)
                          = Distance(nickname, grouped_data[j].name)
                    /\ i <= j

\* The index of the group a nickname joins: the first whose name is within
\* MAX_DISTANCE, 0 if none is.
FindGroup(grouped_data, nickname) ==
    LET hits == {i \in 1..Len(grouped_data) :
                    Distance(nickname, grouped_data[i].name) <= MAX_DISTANCE}
    IN  IF hits = {} THEN 0 ELSE CHOOSE i \in hits : \A j \in hits : i <= j

RECURSIVE GroupStats(_, _)
GroupStats(all_stats, grouped_data) ==
    IF all_stats = <<>> THEN grouped_data
    ELSE LET player_stat == Head(all_stats)
             g == FindGroup(grouped_data, player_stat.nickname)
         IN  GroupStats(Tail(all_stats),
                 IF g # 0
                 THEN [grouped_data EXCEPT
                          ![g].stats = Append(@, StatTuple(player_stat))]
                 ELSE Append(grouped_data,
                             [name |-> player_stat.nickname,
                              stats |-> <<StatTuple(player_stat)>>]))

Column(stats_list, c) == [i \in 1..Len(stats_list) |-> stats_list[i][c]]

IsActive(name, active_nicknames) ==
    \E active_nick \in active_nicknames : Distance(name, active_nick) <= MAX_DISTANCE

\* A threshold one game stricter than the code's
EligibleAbove(games, min_games) == games > min_games

\* if games < MIN_GAMES: continue
Eligible(games, min_games) == ~(games < min_games)

\* A fallback rounded like the other columns, which the code's is not
KDRounded(avg_kills, avg_deaths) ==
    IF avg_deaths[1] > 0
    THEN Round2(TrueDiv(avg_kills, avg_deaths))
    ELSE Round2(avg_kills)

\* round(avg_kills / avg_deaths, 2) if avg_deaths > 0 else avg_kills
KD(avg_kills, avg_deaths) ==
    IF avg_deaths[1] > 0
    THEN Round2(TrueDiv(avg_kills, avg_deaths))
    ELSE avg_kills

AverageEntry(name, stats_list) ==
    LET games == Len(stats_list)
        Mean(c) == TrueDiv(<<SeqSum(Column(stats_list, c)), 1>>, <<games, 1>>)
        avg_kills == Mean(2)
        avg_deaths == Mean(3)
        kd == KD(avg_kills, avg_deaths)
    IN  [nickname |-> name,
         games_played |-> games,
         avg_place |-> IF games = 0 THEN 0
                       ELSE RoundHalfEven(SeqSum(Column(stats_list, 1)), games),
         kd |-> kd,
         avg_kills |-> Round2(avg_kills),
         avg_deaths |-> Round2(avg_deaths),
         avg_assists |-> Round2(Mean(4)),
         avg_score |-> Round2(Mean(6)),
         raised |-> ZeroDivisionError(avg_kills) \/ ZeroDivisionError(kd)]

RECURSIVE NewAverages(_, _, _)
NewAverages(grouped_data, active_nicknames, min_games) ==
    IF grouped_data = <<>> THEN <<>>
    ELSE LET g == Head(grouped_data)
         IN  (IF IsActive(g.name, active_nicknames)
                    /\ Eligible(Len(g.stats), min_games)
              THEN <<AverageEntry(g.name, g.stats)>> ELSE <<>>)
             \o NewAverages(Tail(grouped_data), active_nicknames, min_games)

Raised(new_averages) ==
    \E i \in 1..Len(new_averages) : new_averages[i].raised

\* What one call does, given what it read: the value returned, the locals
\* it built, and whether (and what) it wrote to PLAYER_AVERAGES_FILE.
update_player_averages(raw_data_dict, min_games) ==
    LET active_nicknames == ActiveNicknames(raw_data_dict)
        all_stats == AllStats(raw_data_dict)
        grouped_data == GroupStats(all_stats, <<>>)
        new_averages == NewAverages(grouped_data, active_nicknames, min_games)
        none == [returned |-> "", read |-> raw_data_dict, active_nicknames |-> {},
                 grouped_data |-> <<>>, new_averages |-> <<>>, wrote |-> FALSE,
                 total_kills |-> 0, total_deaths |-> 0]
    IN  IF raw_data_dict = <<>>
        THEN [none EXCEPT !.returned = "no_raw_data"]
        ELSE IF all_stats = <<>>
        THEN [none EXCEPT !.returned = "raw_data_empty",
                          !.active_nicknames = active_nicknames]
        ELSE IF Raised(new_averages)
        THEN [none EXCEPT !.returned = "ZeroDivisionError",
                          !.active_nicknames = active_nicknames,
                          !.grouped_data = grouped_data]
        ELSE [returned |-> "summary", read |-> raw_data_dict,
              active_nicknames |-> active_nicknames,
              grouped_data |-> grouped_data,
              new_averages |-> new_averages, wrote |-> TRUE,
              total_kills |-> SeqSum([i \in 1..Len(all_stats) |-> all_stats[i].kills]),
              total_deaths |-> SeqSum([i \in 1..Len(all_stats) |-> all_stats[i].deaths])]

(***************************************************************************)
(* The OCR service and the image folder                                    *)
(***************************************************************************)
\* The OCR service's text for the "Ошибка" that extract_data_with_gemini
\* returns on an exception (transliterated).
ErrorPrefix == <<"O", "s", "h", "i", "b", "k", "a">>

\* extract_data_with_gemini: response.text.strip(), or the error string
extract_data_with_gemini(image_path) ==
    {[text |-> Strip(Attachment(image_path).text), fault |-> FALSE],
     [text |-> ErrorPrefix \o <<":", " ", "x">>, fault |-> TRUE]}

EndsWith(s, suffix) ==
    Len(s) >= Len(suffix)
    /\ SubSeq(s, Len(s) - Len(suffix) + 1, Len(s)) = suffix

\* glob('*.png') + glob('*.jpg') + glob('*.jpeg')
ImageFiles(dir) ==
    {f \in dir : EndsWith(f, Png) \/ EndsWith(f, Jpg) \/ EndsWith(f, Jpeg)}

(***************************************************************************)
(* State                                                                   *)
(***************************************************************************)
Runs == {1, 2}

Idle == [pc |-> "idle", raw_data |-> <<>>, new_images |-> {},
         processed_count |-> 0, failed |-> {}, results |-> <<>>]

NotParsed == [dict |-> <<>>, count |-> -1]

\* on_ready: both files are created empty when missing
Start ==
    /\ MIN_GAMES \in 1..MaxMinGames
    /\ folder = {}
    /\ rawStore = <<>>
    /\ averages = <<>>
    /\ run = [r \in Runs |-> Idle]
    /\ posted = 0
    /\ faults = 0
    /\ log = {}

Init == Start /\ data = <<>> /\ parsed = NotParsed

Pending == ImageFiles(folder) \ Keys(rawStore)

(***************************************************************************)
(* Reactions                                                               *)
(***************************************************************************)
\* on_raw_reaction_add, for the next attachment of the timeline
ReactionAdd ==
    /\ posted < Len(Attachments)
    /\ Cardinality(Pending) < MaxPending
    /\ LET att == Attachments[posted + 1]
           file_path == PathOf(att)
       IN  folder' = IF att.image /\ file_path \notin folder
                     THEN folder \cup {file_path} ELSE folder
    /\ posted' = posted + 1
    /\ UNCHANGED <<MIN_GAMES, rawStore, averages, run, faults, log, data, parsed>>

\* on_raw_reaction_remove, for the attachment last reacted to
ReactionRemove ==
    /\ posted > 0
    /\ LET file_path == PathOf(Attachments[posted])
       IN  /\ file_path \in folder
           /\ folder' = folder \ {file_path}
    /\ posted' = posted - 1
    /\ UNCHANGED <<MIN_GAMES, rawStore, averages, run, faults, log, data, parsed>>

(***************************************************************************)
(* The update command, cut at its awaits                                   *)
(***************************************************************************)
\* Every image again, whether the store knows it or not
AllImages(image_files, raw_data) == image_files

\* Only the images never tried before
UntriedImages(image_files, raw_data) ==
    {f \in image_files : f \notin Keys(raw_data) /\ f \notin log}

\* [f for f in image_files if f.name not in raw_data]
NewImages(image_files, raw_data) == {f \in image_files : f \notin Keys(raw_data)}

\* lines 431-440, 461: list the folder, read the store, pick the new images
UpdateScan(r) ==
    /\ run[r].pc = "idle"
    /\ LET raw_data == rawStore
           new_images == NewImages(ImageFiles(folder), raw_data)
       IN  run' = [run EXCEPT ![r] =
                      [Idle EXCEPT !.pc = IF new_images # {} THEN "ocr" ELSE "agg",
                                   !.raw_data = raw_data,
                                   !.new_images = new_images]]
    /\ UNCHANGED <<MIN_GAMES, folder, rawStore, averages, posted, faults, log, data, parsed>>

\* A write that keeps the keys the file has and the new contents lack
WriteMerged(persisted, contents) ==
    contents \o SelectSeq(persisted, LAMBDA entry : entry.name \notin Keys(contents))

\* write_json_db: json.dump(data, f) over the whole file
write_json_db(persisted, contents) == contents

\* A flush after each image
FlushEachImage(rest, processed_count) == processed_count > 0

\* The flush follows the loop over new_images: if processed_count > 0
Flush(rest, processed_count) == rest = {} /\ processed_count > 0

\* lines 442-459: one image's extraction comes back and is parsed; after
\* the last one the store is flushed
UpdateExtract(r) ==
    /\ run[r].pc = "ocr"
    /\ \E image_path \in run[r].new_images :
       \E extracted \in extract_data_with_gemini(image_path) :
          /\ extracted.fault => faults < MaxFaults
          /\ faults' = IF extracted.fault THEN faults + 1 ELSE faults
          /\ LET ok == ~StartsWith(extracted.text, ErrorPrefix)
                 raw_data == IF ok
                             THEN parse_and_store_data(image_path, extracted.text,
                                                       run[r].raw_data).dict
                             ELSE run[r].raw_data
                 processed_count == run[r].processed_count + (IF ok THEN 1 ELSE 0)
                 rest == run[r].new_images \ {image_path}
             IN  /\ run' = [run EXCEPT ![r].raw_data = raw_data,
                                       ![r].processed_count = processed_count,
                                       ![r].new_images = rest,
                                       ![r].failed = IF ok THEN @ ELSE @ \cup {image_path},
                                       ![r].pc = IF rest = {} THEN "agg" ELSE "ocr"]
                 /\ rawStore' = IF Flush(rest, processed_count)
                                THEN write_json_db(rawStore, run'[r].raw_data)
                                ELSE rawStore
                 /\ log' = IF ok THEN log ELSE log \cup {image_path}
    /\ UNCHANGED <<MIN_GAMES, folder, averages, posted, data, parsed>>

\* line 465
UpdateAverages(r) ==
    /\ run[r].pc = "agg"
    /\ LET update_results == update_player_averages(rawStore, MIN_GAMES)
       IN  /\ averages' = IF update_results.wrote
                          THEN update_results.new_averages ELSE averages
           /\ run' = [run EXCEPT ![r].pc = "report",
                                 ![r].results = <<update_results>>]
    /\ UNCHANGED <<MIN_GAMES, folder, rawStore, posted, faults, log, data, parsed>>

\* lines 467-477
UpdateReport(r) ==
    /\ run[r].pc = "report"
    /\ run' = [run EXCEPT ![r] = Idle]
    /\ UNCHANGED <<MIN_GAMES, folder, rawStore, averages, posted, faults, log, data, parsed>>

\* The process stops while an update is under way; the files stay.
ProcessStops ==
    /\ \E r \in Runs : run[r].pc # "idle"
    /\ faults < MaxFaults
    /\ faults' = faults + 1
    /\ run' = [r \in Runs |-> Idle]
    /\ UNCHANGED <<MIN_GAMES, folder, rawStore, averages, posted, log, data, parsed>>

\* RAW_STATS_FILE goes missing or unreadable: read_json_db then returns {}
StoreFileLost ==
    /\ rawStore # <<>>
    /\ faults < MaxFaults
    /\ Cardinality(ImageFiles(folder)) <= MaxPending
    /\ faults' = faults + 1
    /\ rawStore' = <<>>
    /\ UNCHANGED <<MIN_GAMES, folder, averages, run, posted, log, data, parsed>>

\* One update at a time, as the bot is operated
Next ==
    \/ ReactionAdd
    \/ ReactionRemove
    \/ UpdateScan(1)
    \/ UpdateExtract(1)
    \/ UpdateAverages(1)
    \/ UpdateReport(1)
    \/ ProcessStops

Spec == Init /\ [][Next]_vars

NextFault == Next \/ StoreFileLost

SpecFault == Init /\ [][NextFault]_vars

(***************************************************************************)
(* Two update commands under way at once: nothing in update keeps a second *)
(* invocation from starting while the first is suspended at an await.      *)
(* Explored over the first MaxOverlapPosted attachments.                   *)
(***************************************************************************)
MaxOverlapPosted == 3

NextOverlap ==
    \/ ReactionAdd /\ posted < MaxOverlapPosted
    \/ ReactionRemove
    \/ \E r \in Runs : UpdateScan(r)
    \/ \E r \in Runs : UpdateExtract(r)
    \/ \E r \in Runs : UpdateAverages(r)
    \/ \E r \in Runs : UpdateReport(r)
    \/ ProcessStops

SpecOverlap == Init /\ [][NextOverlap]_vars

(***************************************************************************)
(* parse_and_store_data on its own: every text of up to MaxTokens fields   *)
(* on its first line, after and before some other text                     *)
(***************************************************************************)
MaxTokens == 8

Tokens == {<<"4">>, <<"1", "0">>, <<"a", ".", "b">>}

RECURSIVE Join(_)
Join(fields) ==
    IF fields = <<>> THEN <<>>
    ELSE IF Len(fields) = 1 THEN fields[1]
    ELSE fields[1] \o Sp \o Join(Tail(fields))

SecondRow == Row(<<"2">>, Bbbb, <<"4">>, <<"3">>, <<"0">>, <<"0">>, <<"6">>)

Before == {<<>>, <<" ", "#", " ">>}
After == {<<>>, <<" ", "#">>, Sp \o NL \o SecondRow}

ParseInputs(max_tokens) ==
    UNION {{before \o Join(fields) \o after : before \in Before, after \in After} :
              fields \in UNION {[1..n -> Tokens] : n \in 0..max_tokens}}

InitParse ==
    /\ MIN_GAMES = 1
    /\ Start
    /\ data \in ParseInputs(MaxTokens)
    /\ parsed = NotParsed

\* parsed_count = parse_and_store_data(image_name, data, raw_data_dict={})
Parse ==
    /\ parsed = NotParsed
    /\ parsed' = parse_and_store_data(PathOf(Attachments[1]), data, <<>>)
    /\ UNCHANGED <<MIN_GAMES, folder, rawStore, averages, run, posted, faults, log, data>>

NextParse == Parse

SpecParse == InitParse /\ [][NextParse]_vars

(***************************************************************************)
(* Properties.  What update_player_averages did is read off the record the *)
(* update keeps between its aggregation and its report.                    *)
(***************************************************************************)
Called == run[1].pc = "report"
Result == run[1].results[1]
Summarised == Called /\ Result.returned = "summary"

Abs(n) == IF n < 0 THEN -n ELSE n

RECURSIVE Ascending(_)
Ascending(S) ==
    IF S = {} THEN <<>>
    ELSE LET m == CHOOSE x \in S : \A y \in S : x <= y
         IN  <<m>> \o Ascending(S \ {m})

\* The records of a store, matches in insertion order and rows in stored
\* order, each with the match it comes from
Records(store) ==
    Concat([i \in 1..Len(store) |->
               [k \in 1..Len(store[i].recs) |->
                   [match |-> store[i].name, rec |-> store[i].recs[k]]]])

\* The text before the first "-", read as an integer
NumericPrefix(name) ==
    LET dash == CHOOSE j \in 1..(Len(name) + 1) :
                    /\ \A k \in 1..(j - 1) : name[k] # "-"
                    /\ (j = Len(name) + 1 \/ name[j] = "-")
    IN  ParseInt(SubSeq(name, 1, dash - 1))

\* Match i is more recent than match j: a larger numeric prefix, or the same
\* prefix and stored earlier
MoreRecent(store, i, j) ==
    \/ NumericPrefix(store[i].name) > NumericPrefix(store[j].name)
    \/ /\ NumericPrefix(store[i].name) = NumericPrefix(store[j].name)
       /\ i < j

\* The 10 matches with the largest numeric prefix
Window(store) ==
    {store[j].name : j \in {j \in 1..Len(store) :
        Cardinality({i \in 1..Len(store) : MoreRecent(store, i, j)}) < 10}}

\* First fit, record by record: owner[i] is the index of the record whose
\* nickname is the canonical nickname record i is attributed to (i itself
\* when record i founds an identity)
RECURSIVE Owners(_, _)
Owners(recs, n) ==
    IF n = 0 THEN <<>>
    ELSE LET owner == Owners(recs, n - 1)
             near == {j \in 1..(n - 1) :
                         /\ owner[j] = j
                         /\ Distance(recs[j].rec.nickname, recs[n].rec.nickname) <= 3}
         IN  Append(owner, IF near = {} THEN n
                           ELSE CHOOSE j \in near : \A k \in near : j <= k)

Founders(owner) == {i \in 1..Len(owner) : owner[i] = i}
Members(owner, c) == {i \in 1..Len(owner) : owner[i] = c}

\* The groups first fit gives, in the order the identities were created
FirstFit(store) ==
    LET recs == Records(store)
        owner == Owners(recs, Len(recs))
        founders == Ascending(Founders(owner))
    IN  [g \in 1..Len(founders) |->
            LET members == Ascending(Members(owner, founders[g]))
            IN  [name |-> recs[founders[g]].rec.nickname,
                 stats |-> [k \in 1..Len(members) |->
                               <<recs[members[k]].rec.place, recs[members[k]].rec.kills,
                                 recs[members[k]].rec.deaths, recs[members[k]].rec.assists,
                                 recs[members[k]].rec.treasury, recs[members[k]].rec.score>>]]]

\* Identity c has a record in one of the 10 most recent matches
SeenRecently(store, recs, owner, c) ==
    \E i \in Members(owner, c) : recs[i].match \in Window(store)

Emitted(new_averages, name) ==
    {k \in 1..Len(new_averages) : new_averages[k].nickname = name}

\* C1 (activity gating): after update_player_averages, every identity in
\* PlayerAverages has at least one record, among those first fit attributes
\* to it, in one of the 10 matches with the largest numeric prefix; an
\* identity whose records all come from older matches is not emitted.
C1_ActivityGating ==
    Summarised =>
        LET recs == Records(Result.read)
            owner == Owners(recs, Len(recs))
        IN  \A k \in 1..Len(Result.new_averages) :
                \E c \in Founders(owner) :
                    /\ recs[c].rec.nickname = Result.new_averages[k].nickname
                    /\ SeenRecently(Result.read, recs, owner, c)

\* C2 (eligibility threshold): an identity with a record in the recent
\* window is emitted exactly when the number of stat tuples attributed to it
\* is at least MIN_GAMES, at most once, and every emitted entry's
\* games_played is that number.
C2_EligibilityThreshold ==
    Summarised =>
        LET recs == Records(Result.read)
            owner == Owners(recs, Len(recs))
        IN  \A c \in Founders(owner) :
                LET games == Cardinality(Members(owner, c))
                    emitted == Emitted(Result.new_averages, recs[c].rec.nickname)
                IN  /\ SeenRecently(Result.read, recs, owner, c)
                       => (emitted # {} <=> games >= MIN_GAMES)
                    /\ Cardinality(emitted) <= 1
                    /\ \A k \in emitted :
                           Result.new_averages[k].games_played = games

\* An identity with exactly MIN_GAMES tuples is emitted while another recent
\* one with exactly MIN_GAMES - 1 is not
C2_Witness ==
    /\ Summarised
    /\ LET recs == Records(Result.read)
           owner == Owners(recs, Len(recs))
       IN  /\ \E c \in Founders(owner) :
                 /\ Cardinality(Members(owner, c)) = MIN_GAMES
                 /\ SeenRecently(Result.read, recs, owner, c)
                 /\ Emitted(Result.new_averages, recs[c].rec.nickname) # {}
           /\ \E c \in Founders(owner) :
                 /\ Cardinality(Members(owner, c)) = MIN_GAMES - 1
                 /\ SeenRecently(Result.read, recs, owner, c)
                 /\ Emitted(Result.new_averages, recs[c].rec.nickname) = {}

\* The matches whose numeric prefix is strictly the smallest of the store
Oldest(store) ==
    {j \in 1..Len(store) : \A i \in 1..Len(store) :
        i # j => NumericPrefix(store[j].name) < NumericPrefix(store[i].name)}

\* The nicknames that occur in match j and in no other
OnlyIn(store, j) ==
    {store[j].recs[k].nickname : k \in 1..Len(store[j].recs)}
    \ UNION {{store[i].recs[k].nickname : k \in 1..Len(store[i].recs)} :
                i \in 1..Len(store) \ {j}}

\* C3 (recency window): the active nickname set is exactly the union of the
\* nicknames of the records of the 10 matches whose numeric prefix, compared
\* as an integer, is largest; with 11 stored matches a nickname found only in
\* the match with the smallest prefix is not active.
C3_RecencyWindow ==
    (Called /\ Result.returned # "no_raw_data") =>
        LET recs == Records(Result.read)
        IN  /\ Result.active_nicknames =
                  {recs[i].rec.nickname :
                      i \in {x \in 1..Len(recs) : recs[x].match \in Window(Result.read)}}
            /\ Len(Result.read) = 11 =>
                  \A j \in Oldest(Result.read) :
                      OnlyIn(Result.read, j) \cap Result.active_nicknames = {}

\* Eleven matches are stored and the oldest has a nickname of its own
C3_Witness ==
    /\ Summarised
    /\ Len(Result.read) = 11
    /\ \E j \in Oldest(Result.read) : OnlyIn(Result.read, j) # {}

\* C4 (raw store monotonicity): with the store file readable and one update
\* at a time, every step keeps every key of the persisted store and the
\* record list under it, and an update never has an image to extract whose
\* name is already a key of the store.
C4_RawStoreMonotonic ==
    /\ [][\A i \in 1..Len(rawStore) :
              \E j \in 1..Len(rawStore') : rawStore'[j] = rawStore[i]]_vars
    /\ [](run[1].new_images \cap Keys(rawStore) = {})
    /\ [](run[1].new_images \cap Keys(run[1].raw_data) = {})

\* An update is extracting new images while the folder also holds an image
\* the store already knows
C4_Witness ==
    /\ run[1].pc = "ocr"
    /\ run[1].new_images # {}
    /\ ImageFiles(folder) \cap Keys(rawStore) # {}

\* C5 (averages overwritten on every run): after every call of
\* update_player_averages, whatever it returned, the persisted PlayerAverages
\* is the table derived from the store the call read (the empty table for an
\* empty store), so nothing an earlier run wrote survives.
C5_AveragesRecomputed ==
    Called =>
        averages = NewAverages(GroupStats(AllStats(Result.read), <<>>),
                               ActiveNicknames(Result.read), MIN_GAMES)

\* C6 (first-fit clustering): the groups update_player_averages builds are
\* those of first fit over the records in store order: each record joins the
\* earliest-created canonical nickname within distance 3, not the closest,
\* and founds a new last identity when there is none; two records alone at
\* distance 1 make one identity of two games.
C6_FirstFitClustering ==
    Summarised =>
        /\ Result.grouped_data = FirstFit(Result.read)
        /\ LET recs == Records(Result.read)
           IN  (/\ Len(recs) = 2
                /\ Levenshtein(recs[1].rec.nickname, recs[2].rec.nickname) = 1)
               => /\ Len(Result.grouped_data) = 1
                  /\ Len(Result.grouped_data[1].stats) = 2
                  /\ MIN_GAMES <= 2 =>
                        /\ Len(Result.new_averages) = 1
                        /\ Result.new_averages[1].games_played = 2

\* A record was attributed to an identity although a later-created identity
\* is closer to its nickname
C6_Witness ==
    /\ Summarised
    /\ LET recs == Records(Result.read)
           owner == Owners(recs, Len(recs))
       IN  \E i \in 1..Len(recs) : \E c \in Founders(owner) :
               /\ owner[i] < c /\ c < i
               /\ Levenshtein(recs[c].rec.nickname, recs[i].rec.nickname)
                     < Levenshtein(recs[owner[i]].rec.nickname, recs[i].rec.nickname)

SumOf(recs, members, field) ==
    SeqSum([k \in 1..Len(Ascending(members)) |->
               IF field = "kills" THEN recs[Ascending(members)[k]].rec.kills
               ELSE recs[Ascending(members)[k]].rec.deaths])

\* C7 (kd fallback): for every emitted identity, kd is the unrounded mean
\* kills (sum of kills / games) when its mean deaths is 0, and otherwise the
\* mean kills over the mean deaths rounded to 2 decimals (a multiple of 0.01
\* within 0.005 of the quotient); no call ends in a division by zero.
C7_KdFallback ==
    /\ Called => Result.returned # "ZeroDivisionError"
    /\ Summarised =>
          LET recs == Records(Result.read)
              owner == Owners(recs, Len(recs))
          IN  \A k \in 1..Len(Result.new_averages) : \A c \in Founders(owner) :
                  recs[c].rec.nickname = Result.new_averages[k].nickname =>
                      LET kills == SumOf(recs, Members(owner, c), "kills")
                          deaths == SumOf(recs, Members(owner, c), "deaths")
                          games == Cardinality(Members(owner, c))
                          kd == Result.new_averages[k].kd
                      IN  /\ ~Result.new_averages[k].raised
                          /\ kd[2] > 0
                          /\ deaths = 0 => kd[1] * games = kills * kd[2]
                          /\ deaths > 0 =>
                                /\ kd[2] = 100
                                /\ 2 * Abs(100 * kills - kd[1] * deaths) <= deaths

\* One emitted identity never died and its mean kills has more than two
\* decimals; another died and its ratio has more than two decimals
C7_Witness ==
    /\ Summarised
    /\ LET recs == Records(Result.read)
           owner == Owners(recs, Len(recs))
           emitted == {c \in Founders(owner) :
                          Emitted(Result.new_averages, recs[c].rec.nickname) # {}}
       IN  /\ \E c \in emitted :
                 /\ SumOf(recs, Members(owner, c), "deaths") = 0
                 /\ (100 * SumOf(recs, Members(owner, c), "kills"))
                        % Cardinality(Members(owner, c)) # 0
           /\ \E c \in emitted :
                 /\ SumOf(recs, Members(owner, c), "deaths") > 0
                 /\ (100 * SumOf(recs, Members(owner, c), "kills"))
                        % SumOf(recs, Members(owner, c), "deaths") # 0

\* The fields of a line: its maximal runs of characters other than
\* whitespace, each as <<from, to>> with to exclusive
RECURSIVE FieldSpans(_, _)
FieldSpans(s, i) ==
    LET a == RunEnd(s, i, Spaces)
    IN  IF a > Len(s) THEN <<>>
        ELSE LET b == CHOOSE j \in (a + 1)..(Len(s) + 1) :
                          /\ \A k \in a..(j - 1) : s[k] \notin Spaces
                          /\ (j = Len(s) + 1 \/ s[j] \in Spaces)
             IN  <<<<a, b>>>> \o FieldSpans(s, b)

IsNumber(t) == t # <<>> /\ \A k \in 1..Len(t) : t[k] \in Digits

IsNicknameText(t) ==
    \A k \in 1..Len(t) : t[k] \in Letters \cup Digits \cup Spaces \cup {".", "-"}

\* The record of a line made of a place, a nickname and exactly five further
\* integers; nothing for any other line
ShapedRow(line) ==
    LET f == FieldSpans(line, 1)
        n == Len(f)
        Field(k) == Slice(line, f[k][1], f[k][2])
    IN  IF /\ n >= 7
           /\ IsNumber(Field(1))
           /\ \A k \in (n - 4)..n : IsNumber(Field(k))
           /\ IsNicknameText(Slice(line, f[2][1], f[n - 5][2]))
        THEN <<[place |-> ParseInt(Field(1)),
                nickname |-> Slice(line, f[2][1], f[n - 5][2]),
                kills |-> ParseInt(Field(n - 4)), deaths |-> ParseInt(Field(n - 3)),
                assists |-> ParseInt(Field(n - 2)), treasury |-> ParseInt(Field(n - 1)),
                score |-> ParseInt(Field(n))]>>
        ELSE <<>>

\* C8 (record parsing): parse_and_store_data stores, for every line made of a
\* place, a nickname of word characters, spaces, hyphens and periods and
\* exactly five further integers, one record with those integers in column
\* order and the full trimmed nickname, stores nothing for any other line,
\* and returns the number of records stored.
C8_RecordParsing ==
    parsed # NotParsed =>
        LET lines == SplitOn(data, "\n")
            expected == Concat([k \in 1..Len(lines) |-> ShapedRow(lines[k])])
        IN  /\ parsed.count = Len(expected)
            /\ parsed.dict = IF expected = <<>> THEN <<>>
                             ELSE <<[name |-> PathOf(Attachments[1]), recs |-> expected]>>

\* C9 (extraction failure is retried): an image whose extraction came back
\* as an error gets no key in the run's copy of the store nor in the
\* persisted store during that run; the error only takes that image off the
\* run's list, whose other images are all handled before the aggregation; and
\* an update that starts while the image is still in the folder, and still
\* without a key, takes it up again.
C9_FailureRetried ==
    /\ [](run[1].failed \cap (Keys(run[1].raw_data) \cup Keys(rawStore)) = {})
    /\ [](run[1].pc \in {"agg", "report"} => run[1].new_images = {})
    /\ [][run'[1].failed \ run[1].failed # {} =>
              /\ run'[1].raw_data = run[1].raw_data
              /\ rawStore' = rawStore \/ rawStore' = run[1].raw_data
              /\ run'[1].new_images
                    = run[1].new_images \ (run'[1].failed \ run[1].failed)
              /\ run'[1].pc = IF run'[1].new_images = {} THEN "agg" ELSE "ocr"]_vars
    /\ [][run[1].pc = "idle" /\ run'[1].pc # "idle" =>
              \A f \in log :
                  (f \in ImageFiles(folder) /\ f \notin Keys(rawStore))
                      => (f \in run'[1].new_images /\ run'[1].pc = "ocr")]_vars

\* An update is about to extract an image whose extraction failed in an
\* earlier update
C9_Witness ==
    /\ run[1].pc = "ocr"
    /\ run[1].failed = {}
    /\ log \cap run[1].new_images # {}

\* C10 (single flush per update run): the persisted store changes only in
\* the step that handles the last image of the batch, to the run's copy; in
\* particular a process stop before that leaves it as it was, without any
\* image of the batch.
C10_SingleFlush ==
    /\ [][rawStore' # rawStore =>
              /\ run[1].pc = "ocr"
              /\ run'[1].pc = "agg"
              /\ run'[1].new_images = {}
              /\ rawStore' = run'[1].raw_data]_vars
    /\ [][run[1].pc = "ocr" /\ run'[1].pc = "idle" =>
              /\ rawStore' = rawStore
              /\ Keys(rawStore') \cap (Keys(run[1].raw_data) \ Keys(rawStore)) = {}]_vars
    /\ [](run[1].pc = "ocr" =>
              /\ Len(rawStore) <= Len(run[1].raw_data)
              /\ rawStore = SubSeq(run[1].raw_data, 1, Len(rawStore)))

\* Mid-batch: one image is parsed into the run's copy, not yet in the
\* persisted store, and others are still to come
C10_Witness ==
    /\ run[1].pc = "ocr"
    /\ run[1].new_images # {}
    /\ Keys(run[1].raw_data) \ Keys(rawStore) # {}

\* C11 (concurrent update runs race on the store file): with two updates
\* under way at once, the persisted store changes only when a run handles
\* the last image of its batch, and then becomes that run's own copy as a
\* whole; a run's copy is the store as read at its start plus only the
\* images of its own batch; and one step of a run takes at most one image
\* off its list, so its extractions come one at a time.
C11_StoreFileRace ==
    /\ [][rawStore' # rawStore =>
              \E r \in Runs :
                  /\ run[r].pc = "ocr"
                  /\ run'[r].pc = "agg"
                  /\ rawStore' = run'[r].raw_data]_vars
    /\ [][\A r \in Runs :
              /\ (run[r].pc = "idle" /\ run'[r].pc # "idle")
                    => run'[r].raw_data = rawStore
              /\ (run[r].pc = "ocr" /\ run'[r].pc # "idle")
                    => Keys(run'[r].raw_data)
                          \subseteq Keys(run[r].raw_data) \cup run[r].new_images
              /\ (run[r].pc = "ocr" /\ run'[r].pc # "idle")
                    => Cardinality(run[r].new_images \ run'[r].new_images) <= 1]_vars

\* Both runs overlapped, and a match one run flushed to the persisted store
\* is absent from it after the other run's flush
C11_Witness ==
    \E r \in Runs :
        /\ run[r].pc \in {"agg", "report"}
        /\ run[r].processed_count > 0
        /\ run[3 - r].pc \in {"agg", "report"}
        /\ run[3 - r].processed_count > 0
        /\ rawStore = run[3 - r].raw_data
        /\ Keys(run[r].raw_data) \ Keys(rawStore) # {}

====
